---- MODULE Spec2Model ----
(***************************************************************************)
(* Model of pkg/beaconproxy/analyzer.go: the analyzer session (collect,    *)
(* close, start and its worker goroutine) and the statistics computed for  *)
(* every entry (deltas, zero-delta exclusion, quantiles, Bowley skew,      *)
(* MADM, range, histogram and mode).                                       *)
(*                                                                         *)
(* Go slices are modelled as sequences; a Go index i (0-based) into s is   *)
(* At(s, i) and is legal exactly when IndexLegal(Len(s), i).  A run-time   *)
(* panic of any goroutine ends the whole process: crashed holds the panic  *)
(* message.                                                                *)
(***************************************************************************)
EXTENDS Integers, Sequences, FiniteSets, TLC

\* ------------------------------------------------------------------ bounds
NumProducers == 2
MaxCollects == 4
MaxTsLen == 6
MaxTs == 5

ChanCapBuffered == 1 + 1

\* capacity of analysisChannel: make(chan *uconnproxy.Input) is unbuffered
ChanCap == 0

Producers == 1..NumProducers

NoCrash == "running"
SendOnClosed == "panic: send on closed channel"
IndexOutOfRange == "panic: index out of range"

\* ------------------------------------------------- helpers from package util
\* util.Round(num/den): round half up to the nearest integer (den > 0)
Round(num, den) == (2 * num + den) \div (2 * den)

\* util.Abs
Abs(x) == IF x < 0 THEN 0 - x ELSE x

RECURSIVE InsertSorted(_, _)
InsertSorted(s, x) ==
    IF s = <<>> THEN <<x>>
    ELSE IF x < Head(s) THEN <<x>> \o s
    ELSE <<Head(s)>> \o InsertSorted(Tail(s), x)

\* sort.Sort(util.SortableInt64(s)): ascending order
RECURSIVE SortInt64(_)
SortInt64(s) ==
    IF s = <<>> THEN <<>> ELSE InsertSorted(SortInt64(Tail(s)), Head(s))

\* ------------------------------------------------------------- Go slices
IndexLegal(length, i) == i >= 0 /\ i < length
At(s, i) == s[i + 1]

\* s[from:]
SliceFrom(s, from) == SubSeq(s, from + 1, Len(s))

\* ------------------------------------------------ natural numbers of any size
\* (the 53-bit significands of float64 values do not fit the model's integers)
\* a number is the sequence of its limbs of LimbBits bits, least significant
\* first, without leading zero limbs; <<>> is 0
LimbBits == 15
LimbBase == 2 ^ LimbBits

Limb(a, i) == IF i <= Len(a) THEN a[i] ELSE 0
Zeros(n) == [i \in 1..n |-> 0]

RECURSIVE BigTrim(_)
BigTrim(a) ==
    IF Len(a) > 0 /\ a[Len(a)] = 0 THEN BigTrim(SubSeq(a, 1, Len(a) - 1)) ELSE a

RECURSIVE BigFromInt(_)
BigFromInt(n) ==
    IF n = 0 THEN <<>> ELSE <<n % LimbBase>> \o BigFromInt(n \div LimbBase)

RECURSIVE BigAddFrom(_, _, _, _)
BigAddFrom(a, b, i, carry) ==
    IF i > Len(a) /\ i > Len(b) THEN BigFromInt(carry)
    ELSE LET s == Limb(a, i) + Limb(b, i) + carry
         IN  <<s % LimbBase>> \o BigAddFrom(a, b, i + 1, s \div LimbBase)

BigAdd(a, b) == BigTrim(BigAddFrom(a, b, 1, 0))

RECURSIVE BigSubFrom(_, _, _, _)
BigSubFrom(a, b, i, borrow) ==
    IF i > Len(a) THEN <<>>
    ELSE LET d == a[i] - Limb(b, i) - borrow
         IN  <<d % LimbBase>> \o BigSubFrom(a, b, i + 1, IF d < 0 THEN 1 ELSE 0)

\* a - b for a >= b
BigSub(a, b) == BigTrim(BigSubFrom(a, b, 1, 0))

RECURSIVE BigCmpFrom(_, _, _)
BigCmpFrom(a, b, i) ==
    IF i = 0 THEN 0
    ELSE IF a[i] # b[i] THEN (IF a[i] < b[i] THEN -1 ELSE 1)
    ELSE BigCmpFrom(a, b, i - 1)

\* -1, 0 or 1 as a < b, a = b or a > b
BigCmp(a, b) ==
    IF Len(a) # Len(b) THEN (IF Len(a) < Len(b) THEN -1 ELSE 1)
    ELSE BigCmpFrom(a, b, Len(a))

RECURSIVE IntBitLen(_)
IntBitLen(n) == IF n = 0 THEN 0 ELSE 1 + IntBitLen(n \div 2)

BigBitLen(a) ==
    IF Len(a) = 0 THEN 0 ELSE LimbBits * (Len(a) - 1) + IntBitLen(a[Len(a)])

\* bit i of a (bit 0 is the least significant)
BigBit(a, i) == (Limb(a, (i \div LimbBits) + 1) \div (2 ^ (i % LimbBits))) % 2

\* a * 2^s
BigShl(a, s) ==
    LET t == s % LimbBits
    IN  IF Len(a) = 0 THEN <<>>
        ELSE Zeros(s \div LimbBits) \o
             BigTrim([i \in 1..(Len(a) + 1) |->
                        ((Limb(a, i) * (2 ^ t)) % LimbBase)
                        + (IF i > 1 THEN (a[i - 1] * (2 ^ t)) \div LimbBase ELSE 0)])

\* a \div 2^s
BigShr(a, s) ==
    LET k == s \div LimbBits
        t == s % LimbBits
        b == SubSeq(a, k + 1, Len(a))
    IN  IF k >= Len(a) THEN <<>>
        ELSE BigTrim([i \in 1..Len(b) |->
                        (b[i] \div (2 ^ t))
                        + (Limb(b, i + 1) % (2 ^ t)) * (2 ^ (LimbBits - t))])

\* a % 2^s = 0
BigLowZero(a, s) ==
    /\ \A i \in 1..(s \div LimbBits) : Limb(a, i) = 0
    /\ Limb(a, (s \div LimbBits) + 1) % (2 ^ (s % LimbBits)) = 0

\* the number of zero bits below the lowest one bit of a > 0, counted from
\* bit i on (the bits below i are zero)
RECURSIVE BigTrailingZeros(_, _)
BigTrailingZeros(a, i) ==
    IF i % LimbBits = 0 /\ Limb(a, (i \div LimbBits) + 1) = 0
    THEN BigTrailingZeros(a, i + LimbBits)
    ELSE IF BigBit(a, i) = 1 THEN i
    ELSE BigTrailingZeros(a, i + 1)

RECURSIVE BigMulSmallFrom(_, _, _, _)
BigMulSmallFrom(a, c, i, carry) ==
    IF i > Len(a) THEN BigFromInt(carry)
    ELSE LET p == a[i] * c + carry
         IN  <<p % LimbBase>> \o BigMulSmallFrom(a, c, i + 1, p \div LimbBase)

RECURSIVE BigMulFrom(_, _, _)
BigMulFrom(a, b, i) ==
    IF i > Len(b) THEN <<>>
    ELSE BigAdd(Zeros(i - 1) \o BigMulSmallFrom(a, b[i], 1, 0),
                BigMulFrom(a, b, i + 1))

BigMul(a, b) == BigTrim(BigMulFrom(a, b, 1))

\* a divided by the one-limb number c, from limb i down with remainder r
RECURSIVE BigDivSmallFrom(_, _, _, _)
BigDivSmallFrom(a, c, i, r) ==
    IF i = 0 THEN [q |-> <<>>, exact |-> r = 0]
    ELSE LET cur == r * LimbBase + a[i]
             rest == BigDivSmallFrom(a, c, i - 1, cur % c)
         IN  [q |-> Append(rest.q, cur \div c), exact |-> rest.exact]

\* the largest q + k * 2^bit (k in 0..1, then lower bits) with q * d <= r
RECURSIVE BigDivDigit(_, _, _, _)
BigDivDigit(r, d, q, bit) ==
    IF bit < 0 THEN q
    ELSE IF BigCmp(BigTrim(BigMulSmallFrom(d, q + 2 ^ bit, 1, 0)), r) <= 0
         THEN BigDivDigit(r, d, q + 2 ^ bit, bit - 1)
         ELSE BigDivDigit(r, d, q, bit - 1)

\* schoolbook division limb by limb, from limb i of n down with remainder r
RECURSIVE BigDivLimbs(_, _, _, _)
BigDivLimbs(n, d, i, r) ==
    IF i = 0 THEN [q |-> <<>>, exact |-> Len(r) = 0]
    ELSE LET cur == BigTrim(<<n[i]>> \o r)
             digit == BigDivDigit(cur, d, 0, LimbBits - 1)
             rest == BigDivLimbs(n, d, i - 1,
                                 BigSub(cur, BigTrim(BigMulSmallFrom(d, digit, 1, 0))))
         IN  [q |-> Append(rest.q, digit), exact |-> rest.exact]

\* n \div d for d > 0, and whether the division is exact
BigDiv(n, d) ==
    LET s == IF Len(d) = 1 THEN BigDivSmallFrom(n, d[1], Len(n), 0)
             ELSE BigDivLimbs(n, d, Len(n), <<>>)
    IN  [q |-> BigTrim(s.q), exact |-> s.exact]

\* ------------------------------------------------------------------ float64
\* IEEE 754 binary64 as Go computes with it: a value is NaN, an infinity, a
\* zero or (-1)^neg * m * 2^e with a significand m of exactly MantBits bits;
\* every operation rounds its exact result to the nearest value, ties to the
\* even significand (exponent overflow and subnormals are out of reach of the
\* values of this model)
MantBits == 53

F64NaN == [cls |-> "nan", neg |-> FALSE, m |-> <<>>, e |-> 0]
F64Inf(neg) == [cls |-> "inf", neg |-> neg, m |-> <<>>, e |-> 0]
F64Zero(neg) == [cls |-> "zero", neg |-> neg, m |-> <<>>, e |-> 0]
F64Fin(neg, m, e) == [cls |-> "fin", neg |-> neg, m |-> m, e |-> e]

\* the float64 nearest to (-1)^neg * (M + f) * 2^e, where 0 <= f < 1 and
\* sticky tells f > 0 (then M has more than MantBits bits)
F64Round(neg, M, e, sticky) ==
    LET d == BigBitLen(M) - MantBits
        q == BigShr(M, d)
        half == BigBit(M, d - 1) = 1
        low == ~BigLowZero(M, d - 1) \/ sticky
        q1 == IF half /\ (low \/ BigBit(q, 0) = 1) THEN BigAdd(q, <<1>>) ELSE q
    IN  IF Len(M) = 0 THEN F64Zero(neg)
        ELSE IF d <= 0 THEN F64Fin(neg, BigShl(M, 0 - d), e + d)
        ELSE IF BigBitLen(q1) > MantBits THEN F64Fin(neg, BigShr(q1, 1), e + d + 1)
        ELSE F64Fin(neg, q1, e + d)

\* float64(n) for an integer n
F64FromInt(n) == F64Round(n < 0, BigFromInt(IF n < 0 THEN 0 - n ELSE n), 0, FALSE)

F64Neg(x) == IF x.cls = "nan" THEN x ELSE [x EXCEPT !.neg = ~x.neg]

\* math.Abs
F64Abs(x) == IF x.cls = "nan" THEN x ELSE [x EXCEPT !.neg = FALSE]

F64AddFin(x, y) ==
    LET e == IF x.e < y.e THEN x.e ELSE y.e
        mx == BigShl(x.m, x.e - e)
        my == BigShl(y.m, y.e - e)
        c == BigCmp(mx, my)
    IN  IF x.neg = y.neg THEN F64Round(x.neg, BigAdd(mx, my), e, FALSE)
        ELSE IF c = 0 THEN F64Zero(FALSE)
        ELSE IF c > 0 THEN F64Round(x.neg, BigSub(mx, my), e, FALSE)
        ELSE F64Round(y.neg, BigSub(my, mx), e, FALSE)

\* x + y
F64Add(x, y) ==
    IF x.cls = "nan" \/ y.cls = "nan" THEN F64NaN
    ELSE IF x.cls = "inf" /\ y.cls = "inf"
         THEN (IF x.neg = y.neg THEN x ELSE F64NaN)
    ELSE IF x.cls = "inf" THEN x
    ELSE IF y.cls = "inf" THEN y
    ELSE IF x.cls = "zero" /\ y.cls = "zero" THEN F64Zero(x.neg /\ y.neg)
    ELSE IF x.cls = "zero" THEN y
    ELSE IF y.cls = "zero" THEN x
    ELSE F64AddFin(x, y)

\* x - y
F64Sub(x, y) == F64Add(x, F64Neg(y))

\* x * y
F64Mul(x, y) ==
    IF x.cls = "nan" \/ y.cls = "nan" THEN F64NaN
    ELSE IF x.cls = "inf" \/ y.cls = "inf"
         THEN (IF x.cls = "zero" \/ y.cls = "zero" THEN F64NaN
               ELSE F64Inf(x.neg # y.neg))
    ELSE IF x.cls = "zero" \/ y.cls = "zero" THEN F64Zero(x.neg # y.neg)
    ELSE F64Round(x.neg # y.neg, BigMul(x.m, y.m), x.e + y.e, FALSE)

F64QuoFin(x, y) ==
    LET tz == BigTrailingZeros(y.m, 0)
        d == BigDiv(BigShl(x.m, 60), BigShr(y.m, tz))
    IN  F64Round(x.neg # y.neg, d.q, x.e - y.e - tz - 60, ~d.exact)

\* x / y
F64Quo(x, y) ==
    IF x.cls = "nan" \/ y.cls = "nan" THEN F64NaN
    ELSE IF x.cls = "inf"
         THEN (IF y.cls = "inf" THEN F64NaN ELSE F64Inf(x.neg # y.neg))
    ELSE IF y.cls = "inf" THEN F64Zero(x.neg # y.neg)
    ELSE IF y.cls = "zero"
         THEN (IF x.cls = "zero" THEN F64NaN ELSE F64Inf(x.neg # y.neg))
    ELSE IF x.cls = "zero" THEN F64Zero(x.neg # y.neg)
    ELSE F64QuoFin(x, y)

\* math.Ceil
F64Ceil(x) ==
    IF x.cls # "fin" \/ x.e >= 0 THEN x
    ELSE LET whole == BigShr(x.m, 0 - x.e)
             frac == ~BigLowZero(x.m, 0 - x.e)
         IN  F64Round(x.neg,
                      IF frac /\ ~x.neg THEN BigAdd(whole, <<1>>) ELSE whole,
                      0, FALSE)

F64Sign(x) == IF x.cls = "zero" THEN 0 ELSE IF x.neg THEN -1 ELSE 1
F64Rank(x) == IF x.cls = "zero" THEN 0 ELSE IF x.cls = "fin" THEN 1 ELSE 2

\* -1, 0 or 1 as |x| < |y|, |x| = |y| or |x| > |y| (neither is NaN)
F64MagCmp(x, y) ==
    IF F64Rank(x) # F64Rank(y) THEN (IF F64Rank(x) < F64Rank(y) THEN -1 ELSE 1)
    ELSE IF x.cls # "fin" THEN 0
    ELSE IF x.e # y.e THEN (IF x.e < y.e THEN -1 ELSE 1)
    ELSE BigCmp(x.m, y.m)

F64Cmp(x, y) ==
    IF F64Sign(x) # F64Sign(y) THEN (IF F64Sign(x) < F64Sign(y) THEN -1 ELSE 1)
    ELSE IF F64Sign(x) >= 0 THEN F64MagCmp(x, y)
    ELSE F64MagCmp(y, x)

\* x < y, x > y, x == y: false when an operand is NaN
F64Lt(x, y) == x.cls # "nan" /\ y.cls # "nan" /\ F64Cmp(x, y) < 0
F64Gt(x, y) == x.cls # "nan" /\ y.cls # "nan" /\ F64Cmp(x, y) > 0
F64Eq(x, y) == x.cls # "nan" /\ y.cls # "nan" /\ F64Cmp(x, y) = 0

\* ------------------------------------------- countAndRemoveConsecutiveDuplicates
\* counts[k]++ on a Go map (a missing key reads as 0)
MapInc(counts, k) ==
    IF k \in DOMAIN counts THEN [counts EXCEPT ![k] = @ + 1] ELSE counts @@ (k :> 1)

EmptyMap == [k \in {} |-> 0]

\* the loop of lines 236-242, from idx on
RECURSIVE DedupLoop(_, _, _, _, _)
DedupLoop(numberList, idx, last, result, counts) ==
    IF idx < Len(numberList)
    THEN DedupLoop(numberList, idx + 1, At(numberList, idx),
                   IF last # At(numberList, idx)
                   THEN Append(result, At(numberList, idx)) ELSE result,
                   MapInc(counts, At(numberList, idx)))
    ELSE [result |-> result, counts |-> counts]

\* numberList is not empty (numberList[0] is read)
countAndRemoveConsecutiveDuplicates(numberList) ==
    DedupLoop(numberList, 1, At(numberList, 0), <<At(numberList, 0)>>,
              MapInc(EmptyMap, At(numberList, 0)))

\* ---------------------------------------------------------- createCountMap
ReplacesModeOnTie(count, max) == count >= max

\* if count > max
ReplacesMode(count, max) == count > max

\* the loop of lines 211-218, from index i on
RECURSIVE ModeLoop(_, _, _, _, _, _)
ModeLoop(distinct, countsMap, i, countsArr, mode, max) ==
    IF i < Len(distinct)
    THEN LET datum == At(distinct, i)
             count == countsMap[datum]
         IN  ModeLoop(distinct, countsMap, i + 1, Append(countsArr, count),
                      IF ReplacesMode(count, max) THEN datum ELSE mode,
                      IF ReplacesMode(count, max) THEN count ELSE max)
    ELSE [distinct |-> distinct, countsArr |-> countsArr, mode |-> mode, max |-> max]

\* sortedIn is not empty (distinct[0] is read)
createCountMap(sortedIn) ==
    LET d == countAndRemoveConsecutiveDuplicates(sortedIn)
        mode == At(d.result, 0)
    IN  ModeLoop(d.result, d.counts, 0, <<>>, mode, d.counts[mode])

\* ------------------------------------------------- the body of the worker loop
\* the loop of lines 76-79, from index i on
RECURSIVE DeltaLoop(_, _, _)
DeltaLoop(TsList, i, diffFull) ==
    IF i < Len(TsList) - 1
    THEN DeltaLoop(TsList, i + 1, Append(diffFull, At(TsList, i + 1) - At(TsList, i)))
    ELSE diffFull

\* lines 75-80: the deltas between the timestamps, sorted
DiffFull(TsList) == SortInt64(DeltaLoop(TsList, 0, <<>>))

IsNonZeroOrZero(interval) == interval >= 0

\* if diffFull[i] > 0
IsNonZero(interval) == interval > 0

\* lines 89-95: the first index of a positive delta, 0 when there is none
DiffNonZeroIdx(diffFull) ==
    LET hits == {i \in 0..(Len(diffFull) - 1) : IsNonZero(At(diffFull, i))}
    IN  IF hits = {} THEN 0 ELSE CHOOSE i \in hits : \A j \in hits : i <= j

QuantileIdxOffByOne(quarters, diffLength) == Round(quarters * diffLength, 4)

\* util.Round(q*float64(diffLength-1)) for q = quarters/4
QuantileIdx(quarters, diffLength) == Round(quarters * (diffLength - 1), 4)

\* the loop of lines 124-126, from index i on
RECURSIVE DevLoop(_, _, _, _)
DevLoop(diff, tsMid, i, devs) ==
    IF i < Len(diff)
    THEN DevLoop(diff, tsMid, i + 1, Append(devs, Abs(At(diff, i) - tsMid)))
    ELSE devs

DevsUnsorted(diff, tsMid) == DevLoop(diff, tsMid, 0, <<>>)

\* lines 123-128: the absolute deviations about the median, sorted
Devs(diff, tsMid) == SortInt64(DevLoop(diff, tsMid, 0, <<>>))

\* every slice index the loop body uses on diff, devs and diffFull, as
\* <<length of the slice, index>>, in the order of use
IndexUses(diffFull) ==
    LET diff == SliceFrom(diffFull, DiffNonZeroIdx(diffFull))
        diffLength == Len(diff)
    IN  << <<diffLength, QuantileIdx(1, diffLength)>>,
           <<diffLength, QuantileIdx(2, diffLength)>>,
           <<diffLength, QuantileIdx(3, diffLength)>>,
           <<diffLength, QuantileIdx(2, diffLength)>>,
           <<diffLength, diffLength - 1>>,
           <<diffLength, 0>>,
           <<Len(diffFull), 0>> >>

\* the loop body panics: make([]int64, -1), or an index out of range
EnginePanics(TsList) ==
    \/ Len(TsList) - 1 < 0
    \/ LET uses == IndexUses(DiffFull(TsList))
       IN  \E k \in 1..Len(uses) : ~IndexLegal(uses[k][1], uses[k][2])

SkewDefinedDenOnly(tsBowleyDen, tsLow, tsMid, tsHigh) == tsBowleyDen # 0

\* if tsBowleyDen != 0 && tsMid != tsLow && tsMid != tsHigh
SkewDefined(tsBowleyDen, tsLow, tsMid, tsHigh) ==
    tsBowleyDen # 0 /\ tsMid # tsLow /\ tsMid # tsHigh

IntervalRangeFromZero(diff, diffLength) == At(diff, diffLength - 1)

\* tsIntervalRange := diff[diffLength-1] - diff[0]
IntervalRange(diff, diffLength) == At(diff, diffLength - 1) - At(diff, 0)

\* lines 72-138: the local variables of one iteration that does not panic
Locals(TsList) ==
    LET tsLength == Len(TsList) - 1
        diffFull == DiffFull(TsList)
        diffNonZeroIdx == DiffNonZeroIdx(diffFull)
        diff == SliceFrom(diffFull, diffNonZeroIdx)
        diffLength == Len(diff)
        tsLow == At(diff, QuantileIdx(1, diffLength))
        tsMid == At(diff, QuantileIdx(2, diffLength))
        tsHigh == At(diff, QuantileIdx(3, diffLength))
        tsBowleyNum == tsLow + tsHigh - 2 * tsMid
        tsBowleyDen == tsHigh - tsLow
        devs == Devs(diff, tsMid)
        cm == createCountMap(diffFull)
    IN  [tsLength |-> tsLength,
         diffFull |-> diffFull,
         diffNonZeroIdx |-> diffNonZeroIdx,
         diff |-> diff,
         diffLength |-> diffLength,
         tsLow |-> tsLow, tsMid |-> tsMid, tsHigh |-> tsHigh,
         tsBowleyNum |-> tsBowleyNum, tsBowleyDen |-> tsBowleyDen,
         tsSkew |-> IF SkewDefined(tsBowleyDen, tsLow, tsMid, tsHigh)
                    THEN F64Quo(F64FromInt(tsBowleyNum), F64FromInt(tsBowleyDen))
                    ELSE F64FromInt(0),
         devs |-> devs,
         tsMadm |-> At(devs, QuantileIdx(2, diffLength)),
         tsIntervalRange |-> IntervalRange(diff, diffLength),
         intervals |-> cm.distinct,
         intervalCounts |-> cm.countsArr,
         tsMode |-> cm.mode,
         tsModeCount |-> cm.max]

\* ------------------------------------------------------------- the scores
F64One == F64FromInt(1)

\* tsSkewScore := 1.0 - math.Abs(tsSkew)
TsSkewScore(tsSkew) == F64Sub(F64One, F64Abs(tsSkew))

MadmRatioScoreInverted(tsMadm, tsMid) == F64Quo(F64FromInt(tsMadm), F64FromInt(tsMid))

\* 1.0 - float64(tsMadm)/float64(tsMid)
MadmRatioScore(tsMadm, tsMid) ==
    F64Sub(F64One, F64Quo(F64FromInt(tsMadm), F64FromInt(tsMid)))

\* lines 145-151: 1.0, replaced when tsMid >= 1, then raised to 0 when negative
TsMadmScore(tsMadm, tsMid) ==
    LET s == IF tsMid >= 1 THEN MadmRatioScore(tsMadm, tsMid) ELSE F64One
    IN  IF F64Lt(s, F64FromInt(0)) THEN F64FromInt(0) ELSE s

\* tsConnDiv := (float64(a.tsMax) - float64(a.tsMin)) / 3600
TsConnDiv(min, max) == F64Quo(F64Sub(F64FromInt(max), F64FromInt(min)), F64FromInt(3600))

CappedNever(tsConnCountScore) == FALSE

\* if tsConnCountScore > 1.0
Capped(tsConnCountScore) == F64Gt(tsConnCountScore, F64One)

\* lines 155-158
TsConnCountScore(ConnectionCount, tsConnDiv) ==
    LET s == F64Quo(F64FromInt(ConnectionCount), tsConnDiv)
    IN  IF Capped(s) THEN F64One ELSE s

\* tsScore := math.Ceil((tsSum/3.0)*1000) / 1000
TsScore(tsSum) ==
    F64Quo(F64Ceil(F64Mul(F64Quo(tsSum, F64FromInt(3)), F64FromInt(1000))),
           F64FromInt(1000))

ScoreOfTwo(tsSum) ==
    F64Quo(F64Ceil(F64Mul(F64Quo(tsSum, F64FromInt(2)), F64FromInt(1000))),
           F64FromInt(1000))

\* score := math.Ceil((tsSum/3.0)*1000) / 1000
Score(tsSum) ==
    F64Quo(F64Ceil(F64Mul(F64Quo(tsSum, F64FromInt(3)), F64FromInt(1000))),
           F64FromInt(1000))

\* lines 142-165: the score variables of one iteration, from its local
\* variables l, the entry's connection count and the analyzer's window
Scores(l, ConnectionCount, min, max) ==
    LET tsSkewScore == TsSkewScore(l.tsSkew)
        tsMadmScore == TsMadmScore(l.tsMadm, l.tsMid)
        tsConnDiv == TsConnDiv(min, max)
        tsConnCountScore == TsConnCountScore(ConnectionCount, tsConnDiv)
        tsSum == F64Add(F64Add(tsSkewScore, tsMadmScore), tsConnCountScore)
    IN  [tsSkewScore |-> tsSkewScore,
         tsMadmScore |-> tsMadmScore,
         tsConnDiv |-> tsConnDiv,
         tsConnCountScore |-> tsConnCountScore,
         tsSum |-> tsSum,
         tsScore |-> TsScore(tsSum),
         score |-> Score(tsSum)]

\* ------------------------------------------------------------ the session
VARIABLES
    tsMin, tsMax, chunk,   \* analyzer fields set by newAnalyzer
    queue,                 \* analysisChannel: the buffered elements
    chClosed,              \* analysisChannel has been closed
    wgCount,               \* analysisWg: the WaitGroup counter
    todo,                  \* per producer: the inputs it still passes to collect
    calls,                 \* per producer: the number of collect calls made
    ppc,                   \* per producer: position inside collect
    wpc,                   \* the worker goroutine's position
    entry,                 \* the worker's loop variable (with the item's id)
    locals,                \* the worker's local variables of this iteration
    cpc,                   \* position of the thread that calls close
    running,               \* callback invocations in progress
    crashed,               \* the panic that ended the process, or NoCrash
    handoffs,              \* history: ids of the items whose send completed, in order
    analyzed,              \* history: analyzedCallback invocations, in order
    closedCalls,           \* history: number of closedCallback invocations
    misuse                 \* history: close was called during a collect, or collect after close

vars == <<tsMin, tsMax, chunk, queue, chClosed, wgCount, todo, calls, ppc, wpc,
          entry, locals, cpc, running, crashed, handoffs, analyzed, closedCalls,
          misuse>>

NoEntry == [id |-> <<0, 0>>]
NoLocals == [tsLength |-> -1]
BeaconProxyTable == "beaconProxy"

\* the inputs of the stream: ascending timestamps, at least 3 distinct values
StreamTs ==
    << <<0, 10, 20, 30>>, <<0, 0, 0, 5, 15, 30>>, <<1, 2, 4>>, <<0, 3, 3, 9, 10>> >>

\* the pair a producer passes in its i-th collect call; the same pair comes
\* again later in the stream, from the same and from another producer
PairOf(p, i) == (p + 2 * i) % Len(StreamTs)

StreamInput(p, i) ==
    [key |-> <<"pair", PairOf(p, i)>>,
     SrcNetworkName |-> IF PairOf(p, i) < 2 THEN "lan" ELSE "dmz",
     Proxy |-> IF PairOf(p, i) % 2 = 0 THEN "proxy-a" ELSE "proxy-b",
     ConnectionCount |-> 1 + PairOf(p, i),
     TsList |-> StreamTs[PairOf(p, i) + 1]]

Feed(p, n) == [i \in 1..n |-> StreamInput(p, i)]

\* the timestamps of the engine's inputs: 0, 1, 3, 6, 11, 19, ... with gaps
\* of 1, 2, 3, 5, 8, ... seconds, so that the deltas of a list take many
\* values and some timestamps are evenly spaced (0, 3, 6 and 1, 6, 11)
RECURSIVE Stamp(_)
Stamp(k) == IF k < 2 THEN k ELSE Stamp(k - 1) + Stamp(k - 2) + 2

\* the ascending lists of n timestamps Stamp(lo), ..., Stamp(MaxTs)
RECURSIVE AscendingFrom(_, _)
AscendingFrom(n, lo) ==
    IF n = 0 THEN {<<>>}
    ELSE UNION {{<<Stamp(v)>> \o t : t \in AscendingFrom(n - 1, v)} : v \in lo..MaxTs}

\* every ascending list of at most MaxTsLen of the timestamps
AscendingLists == UNION {AscendingFrom(n, 0) : n \in 0..MaxTsLen}

EngineInput(ts) ==
    [key |-> <<"pair", 1>>, SrcNetworkName |-> "lan", Proxy |-> "proxy-a",
     ConnectionCount |-> Len(ts), TsList |-> ts]

\* the inputs of the scores: the shorter lists, with each of the connection
\* counts, in a session with each of the windows <<tsMin, tsMax>> (widths of
\* 0, 2, 3 and 5 hours)
ShortLists == UNION {AscendingFrom(n, 0) : n \in 0..(MaxTsLen - 2)}
Windows == {<<0, 0>>, <<0, 7200>>, <<0, 10800>>, <<3600, 21600>>}
ConnCounts == {0, 3}

ScoreInput(ts, c) ==
    [key |-> <<"pair", 1>>, SrcNetworkName |-> "lan", Proxy |-> "proxy-a",
     ConnectionCount |-> c, TsList |-> ts]

\* newAnalyzer (lines 35-48); no method has been called yet
InitSession ==
    /\ chunk = 1
    /\ queue = <<>> /\ chClosed = FALSE /\ wgCount = 0
    /\ calls = [p \in Producers |-> 0]
    /\ ppc = [p \in Producers |-> "idle"]
    /\ wpc = "none" /\ entry = NoEntry /\ locals = NoLocals
    /\ cpc = "idle" /\ running = {} /\ crashed = NoCrash
    /\ handoffs = <<>> /\ analyzed = <<>> /\ closedCalls = 0 /\ misuse = FALSE

Init ==
    /\ InitSession
    /\ tsMin = 0 /\ tsMax = 7200
    /\ todo = [p \in Producers |-> Feed(p, MaxCollects)]

\* one producer, one input, drawn from every bounded ascending list
EngineInit ==
    /\ InitSession
    /\ tsMin = 0 /\ tsMax = 7200
    /\ \E ts \in AscendingLists :
          todo = [p \in Producers |-> IF p = 1 THEN <<EngineInput(ts)>> ELSE <<>>]

\* one producer, one input, drawn from the inputs of the scores
ScoreInit ==
    /\ InitSession
    /\ \E w \in Windows : tsMin = w[1] /\ tsMax = w[2]
    /\ \E ts \in ShortLists, c \in ConnCounts :
          todo = [p \in Producers |-> IF p = 1 THEN <<ScoreInput(ts, c)>> ELSE <<>>]

Alive == crashed = NoCrash

RECURSIVE SumCalls(_)
SumCalls(P) ==
    IF P = {} THEN 0
    ELSE LET p == CHOOSE q \in P : TRUE IN calls[p] + SumCalls(P \ {p})

\* the producers make at most MaxCollects collect calls in all
MayCollect(p) == ppc[p] = "idle" /\ todo[p] # <<>> /\ SumCalls(Producers) < MaxCollects
Started == wpc # "none"

\* analysisWg.Add(1) is forgotten
StartNoAdd ==
    /\ Alive /\ wpc = "none"
    /\ wpc' = "range"
    /\ UNCHANGED <<tsMin, tsMax, chunk, queue, chClosed, wgCount, todo, calls, ppc,
                   entry, locals, cpc, running, crashed, handoffs, analyzed,
                   closedCalls, misuse>>

\* start (lines 63-66): analysisWg.Add(1) and the worker goroutine begins
Start ==
    /\ Alive /\ wpc = "none"
    /\ wgCount' = wgCount + 1
    /\ wpc' = "range"
    /\ UNCHANGED <<tsMin, tsMax, chunk, queue, chClosed, todo, calls, ppc, entry,
                   locals, cpc, running, crashed, handoffs, analyzed, closedCalls,
                   misuse>>

Item(p) == [id |-> <<p, calls[p] + 1>>, data |-> Head(todo[p])]
Sending(p) == [id |-> <<p, calls[p]>>, data |-> Head(todo[p])]

\* a non-blocking send: the item is dropped when it cannot be taken at once
CollectOrDrop(p) ==
    /\ Alive /\ Started /\ MayCollect(p)
    /\ calls' = [calls EXCEPT ![p] = @ + 1]
    /\ misuse' = (misuse \/ chClosed)
    /\ IF ~chClosed /\ Len(queue) < ChanCap
       THEN /\ queue' = Append(queue, Item(p))
            /\ handoffs' = Append(handoffs, Item(p).id)
            /\ ppc' = [ppc EXCEPT ![p] = "handed"]
       ELSE /\ IF wpc = "range" THEN ppc' = [ppc EXCEPT ![p] = "sending"]
                                ELSE ppc' = [ppc EXCEPT ![p] = "handed"]
            /\ UNCHANGED <<queue, handoffs>>
    /\ UNCHANGED <<tsMin, tsMax, chunk, chClosed, wgCount, todo, wpc, entry, locals,
                   cpc, running, crashed, analyzed, closedCalls>>

\* collect (lines 51-52): a.analysisChannel <- data is reached; the send
\* completes at once when the buffer has room and blocks otherwise
Collect(p) ==
    /\ Alive /\ Started /\ MayCollect(p)
    /\ calls' = [calls EXCEPT ![p] = @ + 1]
    /\ misuse' = (misuse \/ chClosed)
    /\ IF ~chClosed /\ Len(queue) < ChanCap
       THEN /\ queue' = Append(queue, Item(p))
            /\ handoffs' = Append(handoffs, Item(p).id)
            /\ ppc' = [ppc EXCEPT ![p] = "handed"]
       ELSE /\ ppc' = [ppc EXCEPT ![p] = "sending"]
            /\ UNCHANGED <<queue, handoffs>>
    /\ UNCHANGED <<tsMin, tsMax, chunk, chClosed, wgCount, todo, wpc, entry, locals,
                   cpc, running, crashed, analyzed, closedCalls>>

\* a send on a closed channel panics, a blocked send when the channel is closed too
SendPanic(p) ==
    /\ Alive /\ ppc[p] = "sending" /\ chClosed
    /\ crashed' = SendOnClosed
    /\ UNCHANGED <<tsMin, tsMax, chunk, queue, chClosed, wgCount, todo, calls, ppc,
                   wpc, entry, locals, cpc, running, handoffs, analyzed, closedCalls,
                   misuse>>

\* collect returns (line 53) once its send has completed
CollectReturn(p) ==
    /\ Alive /\ ppc[p] = "handed"
    /\ ppc' = [ppc EXCEPT ![p] = "idle"]
    /\ todo' = [todo EXCEPT ![p] = Tail(@)]
    /\ UNCHANGED <<tsMin, tsMax, chunk, queue, chClosed, wgCount, calls, wpc, entry,
                   locals, cpc, running, crashed, handoffs, analyzed, closedCalls,
                   misuse>>

\* for entry := range a.analysisChannel (line 67) receives: the head of the
\* buffer (a blocked sender then fills the free slot), or, the buffer being
\* empty, the value of a blocked sender
WorkerReceive ==
    /\ Alive /\ wpc = "range"
    /\ IF queue # <<>>
       THEN /\ entry' = Head(queue)
            /\ IF ~chClosed /\ \E p \in Producers : ppc[p] = "sending"
               THEN \E p \in Producers :
                       /\ ppc[p] = "sending"
                       /\ queue' = Append(Tail(queue), Sending(p))
                       /\ handoffs' = Append(handoffs, Sending(p).id)
                       /\ ppc' = [ppc EXCEPT ![p] = "handed"]
               ELSE /\ queue' = Tail(queue)
                    /\ UNCHANGED <<handoffs, ppc>>
       ELSE /\ ~chClosed
            /\ \E p \in Producers :
                  /\ ppc[p] = "sending"
                  /\ entry' = Sending(p)
                  /\ handoffs' = Append(handoffs, Sending(p).id)
                  /\ ppc' = [ppc EXCEPT ![p] = "handed"]
            /\ UNCHANGED queue
    /\ wpc' = "analyze"
    /\ UNCHANGED <<tsMin, tsMax, chunk, chClosed, wgCount, todo, calls, locals, cpc,
                   running, crashed, analyzed, closedCalls, misuse>>

\* lines 72-165: the variables of one iteration that does not panic
Body(data, min, max) ==
    LET l == Locals(data.TsList)
    IN  l @@ Scores(l, data.ConnectionCount, min, max)

TsListAfterInPlace(TsList) == DiffFull(TsList) \o <<TsList[Len(TsList)]>>

\* lines 75-80 and 123-128: the deltas and the deviations are written to
\* slices made by the loop body, and only those are sorted; entry.TsList is
\* read and holds afterwards what it held
TsListAfter(TsList) == TsList

SetFieldsMixed(data, l, cid) ==
    [connection_count |-> data.ConnectionCount,
     proxy |-> data.Proxy,
     src_network_name |-> data.Proxy,
     ts_range |-> l.tsIntervalRange,
     ts_mode |-> l.tsMode,
     ts_mode_count |-> l.tsModeCount,
     ts_intervals |-> l.intervals,
     ts_interval_counts |-> l.intervalCounts,
     ts_dispersion |-> l.tsMadm,
     ts_skew |-> l.tsSkew,
     ts_conns_score |-> l.tsConnCountScore,
     ts_score |-> l.tsScore,
     score |-> l.score,
     cid |-> cid]

\* lines 169-186: proxyBeaconQuery["$set"]
SetFields(data, l, cid) ==
    [connection_count |-> data.ConnectionCount,
     proxy |-> data.Proxy,
     src_network_name |-> data.SrcNetworkName,
     ts_range |-> l.tsIntervalRange,
     ts_mode |-> l.tsMode,
     ts_mode_count |-> l.tsModeCount,
     ts_intervals |-> l.intervals,
     ts_interval_counts |-> l.intervalCounts,
     ts_dispersion |-> l.tsMadm,
     ts_skew |-> l.tsSkew,
     ts_conns_score |-> l.tsConnCountScore,
     ts_score |-> l.tsScore,
     score |-> l.score,
     cid |-> cid]

\* lines 168-194: the update passed to analyzedCallback, a map from the
\* table name to its list of bulk changes
Instruction(data, l, cid) ==
    BeaconProxyTable :>
        << [Selector |-> data.key, Update |-> SetFields(data, l, cid), Upsert |-> TRUE] >>

\* the callback is started in a goroutine of its own and the loop goes on
WorkerAnalyzeAsync ==
    /\ Alive /\ wpc = "analyze"
    /\ IF EnginePanics(entry.data.TsList)
       THEN /\ crashed' = IndexOutOfRange
            /\ UNCHANGED <<wpc, locals, analyzed, running, entry>>
       ELSE /\ analyzed' = Append(analyzed,
                  [id |-> entry.id,
                   update |-> Instruction(entry.data,
                                          Body(entry.data, tsMin, tsMax), chunk)])
            /\ running' = running \cup {<<"analyzedCallback", entry.id>>}
            /\ wpc' = "range"
            /\ entry' = NoEntry
            /\ locals' = NoLocals
            /\ UNCHANGED crashed
    /\ UNCHANGED <<tsMin, tsMax, chunk, queue, chClosed, wgCount, todo, calls, ppc,
                   cpc, handoffs, closedCalls, misuse>>

\* a mode count that is kept from one iteration to the next
WorkerAnalyzeKeepsCount ==
    /\ Alive /\ wpc = "analyze"
    /\ IF EnginePanics(entry.data.TsList)
       THEN /\ crashed' = IndexOutOfRange
            /\ UNCHANGED <<wpc, locals, analyzed, running, entry>>
       ELSE /\ locals' = [Body(entry.data, tsMin, tsMax) EXCEPT
                            !.tsModeCount = @ + Len(analyzed)]
            /\ analyzed' = Append(analyzed,
                  [id |-> entry.id,
                   update |-> Instruction(entry.data, locals', chunk)])
            /\ entry' = [entry EXCEPT !.data.TsList = TsListAfter(@)]
            /\ running' = running \cup {<<"analyzedCallback", entry.id>>}
            /\ wpc' = "callback"
            /\ UNCHANGED crashed
    /\ UNCHANGED <<tsMin, tsMax, chunk, queue, chClosed, wgCount, todo, calls, ppc,
                   cpc, handoffs, closedCalls, misuse>>

\* one iteration of the worker loop (lines 67-197): the statistics and the
\* scores of the entry, the update, and the call of analyzedCallback
WorkerAnalyze ==
    /\ Alive /\ wpc = "analyze"
    /\ IF EnginePanics(entry.data.TsList)
       THEN /\ crashed' = IndexOutOfRange
            /\ UNCHANGED <<wpc, locals, analyzed, running, entry>>
       ELSE /\ locals' = Body(entry.data, tsMin, tsMax)
            /\ analyzed' = Append(analyzed,
                  [id |-> entry.id,
                   update |-> Instruction(entry.data, locals', chunk)])
            /\ entry' = [entry EXCEPT !.data.TsList = TsListAfter(@)]
            /\ running' = running \cup {<<"analyzedCallback", entry.id>>}
            /\ wpc' = "callback"
            /\ UNCHANGED crashed
    /\ UNCHANGED <<tsMin, tsMax, chunk, queue, chClosed, wgCount, todo, calls, ppc,
                   cpc, handoffs, closedCalls, misuse>>

\* a.analyzedCallback returns (line 196) and the loop goes on
AnalyzedCallbackReturn ==
    /\ Alive /\ wpc = "callback"
    /\ running' = running \ {<<"analyzedCallback", entry.id>>}
    /\ wpc' = "range"
    /\ entry' = NoEntry
    /\ locals' = NoLocals
    /\ UNCHANGED <<tsMin, tsMax, chunk, queue, chClosed, wgCount, todo, calls, ppc,
                   cpc, crashed, handoffs, analyzed, closedCalls, misuse>>

\* the worker itself signals the end of the session when its loop ends
WorkerExitSignals ==
    /\ Alive /\ wpc = "range" /\ chClosed /\ queue = <<>>
    /\ wgCount' = wgCount - 1
    /\ closedCalls' = closedCalls + 1
    /\ wpc' = "exited"
    /\ UNCHANGED <<tsMin, tsMax, chunk, queue, chClosed, todo, calls, ppc, entry,
                   locals, cpc, running, crashed, handoffs, analyzed, misuse>>

\* the loop never ends and Done is never called
WorkerExitNoDone ==
    /\ Alive /\ wpc = "range" /\ chClosed /\ queue = <<>>
    /\ wpc' = "exited"
    /\ UNCHANGED <<tsMin, tsMax, chunk, queue, chClosed, wgCount, todo, calls, ppc,
                   entry, locals, cpc, running, crashed, handoffs, analyzed,
                   closedCalls, misuse>>

\* the range loop ends on the closed and drained channel; a.analysisWg.Done()
\* (line 199)
WorkerExit ==
    /\ Alive /\ wpc = "range" /\ chClosed /\ queue = <<>>
    /\ wgCount' = wgCount - 1
    /\ wpc' = "exited"
    /\ UNCHANGED <<tsMin, tsMax, chunk, queue, chClosed, todo, calls, ppc, entry,
                   locals, cpc, running, crashed, handoffs, analyzed, closedCalls,
                   misuse>>

\* close (lines 56-57): close(a.analysisChannel)
Close ==
    /\ Alive /\ Started /\ cpc = "idle"
    /\ chClosed' = TRUE
    /\ cpc' = "wait"
    /\ misuse' = (misuse \/ \E p \in Producers : ppc[p] # "idle")
    /\ UNCHANGED <<tsMin, tsMax, chunk, queue, wgCount, todo, calls, ppc, wpc, entry,
                   locals, running, crashed, handoffs, analyzed, closedCalls>>

WaitSkipped == TRUE

\* a.analysisWg.Wait() returns (line 58)
WaitReturns == wgCount = 0

\* close (lines 58-59): Wait has returned and a.closedCallback() is called
CloseWait ==
    /\ Alive /\ cpc = "wait" /\ WaitReturns
    /\ cpc' = "closedCallback"
    /\ closedCalls' = closedCalls + 1
    /\ running' = running \cup {<<"closedCallback", <<0, 0>>>>}
    /\ UNCHANGED <<tsMin, tsMax, chunk, queue, chClosed, wgCount, todo, calls, ppc,
                   wpc, entry, locals, crashed, handoffs, analyzed, misuse>>

\* a.closedCallback returns and close returns (line 60)
ClosedCallbackReturn ==
    /\ Alive /\ cpc = "closedCallback"
    /\ cpc' = "returned"
    /\ running' = running \ {<<"closedCallback", <<0, 0>>>>}
    /\ UNCHANGED <<tsMin, tsMax, chunk, queue, chClosed, wgCount, todo, calls, ppc,
                   wpc, entry, locals, crashed, handoffs, analyzed, closedCalls,
                   misuse>>

Next ==
    \/ Start
    \/ \E p \in Producers : Collect(p)
    \/ \E p \in Producers : SendPanic(p)
    \/ \E p \in Producers : CollectReturn(p)
    \/ WorkerReceive
    \/ WorkerAnalyze
    \/ AnalyzedCallbackReturn
    \/ WorkerExit
    \/ Close
    \/ CloseWait
    \/ ClosedCallbackReturn

Spec == Init /\ [][Next]_vars

\* the Go scheduler runs every goroutine that can run, and the callbacks
\* return.  WorkerAnalyze is enabled exactly when Alive /\ wpc = "analyze" and
\* every step of it ends that, so its weak fairness is written without ENABLED
Fairness ==
    /\ WF_vars(WorkerReceive)
    /\ []<>(~(Alive /\ wpc = "analyze"))
    /\ WF_vars(AnalyzedCallbackReturn) /\ WF_vars(WorkerExit)
    /\ WF_vars(CloseWait) /\ WF_vars(ClosedCallbackReturn)

FairSpec == Init /\ [][Next]_vars /\ Fairness

EngineSpec == EngineInit /\ [][Next]_vars
ScoreSpec == ScoreInit /\ [][Next]_vars

\* ------------------------------------------------------------ properties
Range(s) == {s[i] : i \in 1..Len(s)}

RECURSIVE SumSeq(_)
SumSeq(s) == IF s = <<>> THEN 0 ELSE Head(s) + SumSeq(Tail(s))

AnalyzedIds == {analyzed[k].id : k \in 1..Len(analyzed)}
AnalyzedRunning == {r \in running : r[1] = "analyzedCallback"}
\* the items whose analyzedCallback invocation has returned
CompletedIds == {id \in AnalyzedIds : <<"analyzedCallback", id>> \notin running}
\* the items whose collect call has returned
ReturnedIds ==
    {id \in Producers \X (1..MaxCollects) :
        id[2] <= (IF ppc[id[1]] = "idle" THEN calls[id[1]] ELSE calls[id[1]] - 1)}
\* the items passed to collect
CollectedIds == {id \in Producers \X (1..MaxCollects) : id[2] <= calls[id[1]]}
ClosedInvoked == cpc \in {"closedCallback", "returned"}

\* C1: with start, then collect calls, then one close (no misuse):
\* closedCallback is invoked at most once, exactly once when close has
\* returned; when it is invoked the worker has left its loop and no
\* analyzedCallback invocation is in progress; and after closedCallback is
\* invoked no analyzedCallback invocation is made, after it has returned no
\* closedCallback invocation is made either.
C1_ClosedCallbackOnceAndLast ==
    /\ [](~misuse =>
            /\ closedCalls <= 1
            /\ (ClosedInvoked <=> closedCalls = 1)
            /\ (ClosedInvoked => wpc = "exited" /\ AnalyzedRunning = {}))
    /\ [][(~misuse /\ ClosedInvoked) => analyzed' = analyzed]_vars
    /\ [][(~misuse /\ cpc = "returned") =>
              (closedCalls' = closedCalls /\ running' = {})]_vars

C1_Witness ==
    /\ ~misuse /\ cpc = "returned" /\ closedCalls = 1
    /\ Len(analyzed) = MaxCollects /\ running = {}

\* C2: with producers collecting concurrently and close issued after their
\* collect calls have returned: once closedCallback is invoked, every item
\* passed to collect has exactly one analyzedCallback invocation, that
\* invocation has returned, and nothing else was analyzed.
C2_ExactlyOncePerItem ==
    /\ \A k1, k2 \in 1..Len(analyzed) : analyzed[k1].id = analyzed[k2].id => k1 = k2
    /\ AnalyzedIds \subseteq CollectedIds
    /\ (~misuse /\ ClosedInvoked) =>
           /\ \A id \in CollectedIds :
                 Cardinality({k \in 1..Len(analyzed) : analyzed[k].id = id}) = 1
           /\ CompletedIds = CollectedIds

C2_Witness ==
    /\ ~misuse /\ ClosedInvoked
    /\ \A p \in Producers : calls[p] >= 1
    /\ Len(handoffs) = MaxCollects
    /\ handoffs[1][1] # 1

\* C3: analyzedCallback is invoked in the order in which the hand-offs of
\* collect completed, and the invocation for an item begins only after the
\* invocations for all items handed off earlier have returned.
C3_EnqueueOrder ==
    /\ Len(analyzed) <= Len(handoffs)
    /\ \A k \in 1..Len(analyzed) :
          /\ analyzed[k].id = handoffs[k]
          /\ k < Len(analyzed) => <<"analyzedCallback", analyzed[k].id>> \notin running

C3_Witness ==
    /\ Len(analyzed) = MaxCollects
    /\ \E j, k \in 1..Len(handoffs) : j < k /\ handoffs[j][1] > handoffs[k][1]
    /\ \E j, k \in 1..Len(handoffs) : j < k /\ handoffs[j][1] < handoffs[k][1]

\* C4: under fair scheduling of the worker and returning callbacks, a close
\* issued after the collect calls have returned does return (unless collect
\* is called after it), and when it has returned the worker has terminated,
\* the channel is drained and every item handed to collect was processed.
C4_CloseRunsToCompletion ==
    /\ [](((~misuse) /\ cpc = "returned") =>
             /\ wpc = "exited" /\ wgCount = 0 /\ queue = <<>>
             /\ entry = NoEntry
             /\ CompletedIds = CollectedIds)
    /\ (((~misuse) /\ cpc = "wait") ~> (cpc = "returned" \/ misuse))

C4_Witness ==
    /\ ~misuse /\ cpc = "returned" /\ wpc = "exited"
    /\ Len(analyzed) >= 2 /\ CompletedIds = CollectedIds

\* C5: start, then close with no collect call: analyzedCallback is never
\* invoked, closedCallback at most once, and exactly once when close has
\* returned.
C5_EmptySession ==
    SumCalls(Producers) = 0 =>
        /\ analyzed = <<>> /\ AnalyzedRunning = {}
        /\ closedCalls <= 1
        /\ (cpc = "returned" => closedCalls = 1)

C5_Witness ==
    /\ SumCalls(Producers) = 0 /\ cpc = "returned"
    /\ closedCalls = 1 /\ analyzed = <<>> /\ wpc = "exited"

\* C6: at most one callback invocation of the session (analyzedCallback or
\* closedCallback) is in progress in every reachable state.
C6_CallbacksNeverConcurrent == Cardinality(running) <= 1

C6_Witness ==
    /\ running = {<<"closedCallback", <<0, 0>>>>}
    /\ Len(analyzed) >= 2
    /\ \E p \in Producers : calls[p] >= 1 /\ \E q \in Producers \ {p} : calls[q] >= 1

\* C7: a collect call returns only after the worker has taken its item, a
\* hand-off happens only while the worker waits at its range loop (not while
\* it scores or is inside analyzedCallback), and at most one item has its
\* collect returned while its analyzedCallback has not completed.
C7_BoundedHandOff ==
    /\ [](/\ queue = <<>>
          /\ \A p \in Producers :
                ppc[p] = "handed" =>
                    (entry.id = <<p, calls[p]>> \/ <<p, calls[p]>> \in AnalyzedIds)
          /\ Cardinality(ReturnedIds \ CompletedIds) <= 1
          /\ Cardinality(Range(handoffs) \ CompletedIds) <= 1)
    /\ [][Len(handoffs') > Len(handoffs) => wpc = "range"]_vars

C7_Witness ==
    /\ wpc = "callback"
    /\ Cardinality(ReturnedIds \ CompletedIds) = 1
    /\ \E p \in Producers : ppc[p] = "sending"
    /\ ~chClosed

\* ------------------------------------------------- properties of the engine
\* the caller's invariant: ascending, at least 3 distinct values
ValidTs(ts) ==
    /\ \A i \in 1..(Len(ts) - 1) : ts[i] <= ts[i + 1]
    /\ Cardinality({ts[i] : i \in 1..Len(ts)}) >= 3

RawDeltas(ts) == [i \in 1..(Len(ts) - 1) |-> ts[i + 1] - ts[i]]
Occurrences(s, v) == Cardinality({i \in 1..Len(s) : s[i] = v})
LastUpdate == analyzed[Len(analyzed)].update[BeaconProxyTable][1].Update

\* C8: for an ascending tsList with at least 3 distinct values the loop body
\* does not panic: every slice index it uses is within bounds, the process
\* never ends with an index panic on such an entry, and the worker's next
\* step is the analyzedCallback call.
C8_TotalOverValidInput ==
    /\ (crashed = IndexOutOfRange => ~ValidTs(entry.data.TsList))
    /\ (wpc = "analyze" /\ ValidTs(entry.data.TsList)) =>
           /\ Len(entry.data.TsList) - 1 >= 0
           /\ LET uses == IndexUses(DiffFull(entry.data.TsList))
              IN  \A k \in 1..Len(uses) : uses[k][2] >= 0 /\ uses[k][2] < uses[k][1]
           /\ ~EnginePanics(entry.data.TsList)

C8_Witness ==
    /\ wpc = "callback" /\ ValidTs(entry.data.TsList)
    /\ locals.diffNonZeroIdx = 2 /\ locals.diffLength = 2
    /\ Len(analyzed) = 1

\* C9: createCountMap on the sorted deltas (zeros included): the intervals
\* are the distinct deltas in strictly ascending order, with one count each,
\* every count is the number of occurrences of its interval, the counts sum
\* to the number of deltas, the mode count is the maximal count and the mode
\* is the smallest interval with that count.
C9_HistogramInvariant ==
    wpc = "callback" =>
        LET deltas == RawDeltas(entry.data.TsList)
            iv == LastUpdate.ts_intervals
            cn == LastUpdate.ts_interval_counts
        IN  /\ Len(deltas) >= 1
            /\ Len(cn) = Len(iv)
            /\ \A k \in 1..(Len(iv) - 1) : iv[k] < iv[k + 1]
            /\ {iv[k] : k \in 1..Len(iv)} = {deltas[i] : i \in 1..Len(deltas)}
            /\ \A k \in 1..Len(iv) : cn[k] = Occurrences(deltas, iv[k])
            /\ SumSeq(cn) = Len(deltas)
            /\ \A k \in 1..Len(cn) : cn[k] <= LastUpdate.ts_mode_count
            /\ \E k \in 1..Len(iv) :
                  /\ iv[k] = LastUpdate.ts_mode
                  /\ cn[k] = LastUpdate.ts_mode_count
                  /\ \A j \in 1..(k - 1) : cn[j] < cn[k]

C9_Witness ==
    /\ wpc = "callback"
    /\ LastUpdate.ts_intervals = <<0, 3, 5>>
    /\ LastUpdate.ts_interval_counts = <<2, 2, 1>>
    /\ LastUpdate.ts_mode = 0 /\ LastUpdate.ts_mode_count = 2

\* C10: for an ascending tsList with at least 3 distinct values, diff is the
\* ascending sequence of exactly the strictly positive deltas (no zero, every
\* positive delta with its multiplicity) and has at least 2 elements.
C10_ZeroDeltaExclusion ==
    (wpc = "callback" /\ ValidTs(entry.data.TsList)) =>
        LET deltas == RawDeltas(entry.data.TsList)
            diff == locals.diff
        IN  /\ \A i \in 1..Len(diff) : diff[i] > 0
            /\ \A i \in 1..(Len(diff) - 1) : diff[i] <= diff[i + 1]
            /\ \A i \in 1..Len(deltas) :
                  deltas[i] > 0 => Occurrences(diff, deltas[i]) = Occurrences(deltas, deltas[i])
            /\ Len(diff) = Cardinality({i \in 1..Len(deltas) : deltas[i] > 0})
            /\ Len(diff) >= 2

C10_Witness ==
    /\ wpc = "callback" /\ ValidTs(entry.data.TsList)
    /\ Occurrences(RawDeltas(entry.data.TsList), 0) = 2
    /\ locals.diff = <<1, 2>>

\* ------------------------------------------------------------ the scores
\* 0 <= x <= 1
InUnitInterval(x) == x.cls \in {"zero", "fin"} /\ ~F64Lt(x, F64FromInt(0)) /\ ~F64Gt(x, F64One)

\* C11: with low, mid, high the values of diff at the 0.25, 0.5 and 0.75
\* quantile indices of a valid input, low <= mid <= high and
\* |low + high - 2*mid| <= high - low; the skew is the float64 quotient
\* (low + high - 2*mid) / (high - low) when high # low, mid # low and
\* mid # high, and 0 otherwise; |skew| <= 1, and tsSkewScore = 1 - |skew| lies
\* in [0, 1]; the update reports that skew
C11_BowleySkew ==
    (wpc = "callback" /\ ValidTs(entry.data.TsList)) =>
        LET m == Len(locals.diff)
            low == At(locals.diff, QuantileIdx(1, m))
            mid == At(locals.diff, QuantileIdx(2, m))
            high == At(locals.diff, QuantileIdx(3, m))
        IN  /\ low <= mid /\ mid <= high
            /\ Abs(low + high - 2 * mid) <= high - low
            /\ locals.tsSkew =
                  (IF high # low /\ mid # low /\ mid # high
                   THEN F64Quo(F64FromInt(low + high - 2 * mid), F64FromInt(high - low))
                   ELSE F64FromInt(0))
            /\ InUnitInterval(F64Abs(locals.tsSkew))
            /\ locals.tsSkewScore = F64Sub(F64One, F64Abs(locals.tsSkew))
            /\ InUnitInterval(locals.tsSkewScore)
            /\ LastUpdate.ts_skew = locals.tsSkew

\* the deltas 1, 2, 3, 5, 8: low = 2, mid = 3, high = 5 and the skew is 1/3
C11_Witness ==
    /\ wpc = "callback" /\ ValidTs(entry.data.TsList)
    /\ locals.tsLow = 2 /\ locals.tsMid = 3 /\ locals.tsHigh = 5
    /\ locals.tsSkew = F64Quo(F64FromInt(1), F64FromInt(3))
    /\ F64Lt(F64FromInt(0), locals.tsSkewScore) /\ F64Lt(locals.tsSkewScore, F64One)

\* the positive deltas of ts all have one value
Regular(ts) ==
    \A i, j \in 1..Len(RawDeltas(ts)) :
        (RawDeltas(ts)[i] > 0 /\ RawDeltas(ts)[j] > 0) => RawDeltas(ts)[i] = RawDeltas(ts)[j]

\* the entry's connection count is at least the width of the window in hours
AtLeastWindowHours == entry.data.ConnectionCount * 3600 >= tsMax - tsMin

\* what perfectly regular timing gets: no skew, no dispersion, both scores 1
RegularSubScores ==
    /\ F64Eq(locals.tsSkew, F64FromInt(0)) /\ F64Eq(LastUpdate.ts_skew, F64FromInt(0))
    /\ locals.tsMadm = 0 /\ LastUpdate.ts_dispersion = 0
    /\ locals.tsSkewScore = F64One
    /\ locals.tsMadmScore = F64One

RegularComposite ==
    /\ locals.tsConnCountScore = F64One /\ LastUpdate.ts_conns_score = F64One
    /\ LastUpdate.score = F64One

\* C12 as stated: a valid input whose positive deltas all have one value has skew
\* 0, madm 0, tsSkewScore 1 and tsMadmScore 1, and when its connection count
\* is at least the window width in hours, tsConnCountScore is 1 and the score
\* is exactly 1.0
C12_RegularTimingAsStated ==
    (wpc = "callback" /\ ValidTs(entry.data.TsList) /\ Regular(entry.data.TsList)) =>
        /\ RegularSubScores
        /\ AtLeastWindowHours => RegularComposite

\* C12, amended: the same, the composite part for a connection count and a
\* window width that are not both zero
C12_RegularTiming ==
    (wpc = "callback" /\ ValidTs(entry.data.TsList) /\ Regular(entry.data.TsList)) =>
        /\ RegularSubScores
        /\ (AtLeastWindowHours /\ ~(entry.data.ConnectionCount = 0 /\ tsMax = tsMin))
              => RegularComposite

\* the timestamps 1, 6, 11 with 3 connections in a window of 3 hours
C12_Witness ==
    /\ wpc = "callback" /\ entry.data.TsList = <<1, 6, 11>>
    /\ entry.data.ConnectionCount = 3 /\ tsMax - tsMin = 10800
    /\ locals.tsMid = 5 /\ locals.tsMadm = 0
    /\ LastUpdate.score = F64One

\* exact fractions <<numerator, denominator>> with a positive denominator
RECURSIVE Gcd(_, _)
Gcd(a, b) == IF b = 0 THEN a ELSE Gcd(b, a % b)

Frac(n, d) == <<n \div Gcd(Abs(n), d), d \div Gcd(Abs(n), d)>>
FracAdd(x, y) == Frac(x[1] * y[2] + y[1] * x[2], x[2] * y[2])

\* the three sub-scores as the real numbers of their formulas
TrueSkewScore ==
    IF locals.tsHigh # locals.tsLow /\ locals.tsMid # locals.tsLow
       /\ locals.tsMid # locals.tsHigh
    THEN Frac(locals.tsBowleyDen - Abs(locals.tsBowleyNum), locals.tsBowleyDen)
    ELSE <<1, 1>>

TrueDispersionScore ==
    IF locals.tsMid >= 1 /\ locals.tsMadm <= locals.tsMid
    THEN Frac(locals.tsMid - locals.tsMadm, locals.tsMid)
    ELSE IF locals.tsMid >= 1 THEN <<0, 1>> ELSE <<1, 1>>

\* for a connection count >= 0 and a window of positive width
TrueConnCountScore ==
    IF entry.data.ConnectionCount * 3600 >= tsMax - tsMin THEN <<1, 1>>
    ELSE Frac(entry.data.ConnectionCount * 3600, tsMax - tsMin)

TrueSum == FracAdd(FracAdd(TrueSkewScore, TrueDispersionScore), TrueConnCountScore)

\* the least k with k / 1000 >= TrueSum / 3
TrueAverageUpThousandths == (1000 * TrueSum[1] + 3 * TrueSum[2] - 1) \div (3 * TrueSum[2])

\* C13: for a valid input with a connection count >= 0 in a window of
\* positive width, the score is k/1000 for the whole number k of thousandths
\* that the true average of the three sub-scores rounds up to (the score is at
\* least the true average and exceeds it by less than 0.001), and 0 <= k <= 1000
C13_ScoreRoundedUp ==
    (wpc = "callback" /\ ValidTs(entry.data.TsList)
       /\ entry.data.ConnectionCount >= 0 /\ tsMax - tsMin > 0) =>
        /\ TrueAverageUpThousandths \in 0..1000
        /\ LastUpdate.score = F64Quo(F64FromInt(TrueAverageUpThousandths), F64FromInt(1000))

\* the Update of the k-th instruction handed to analyzedCallback
UpdateOf(k) == analyzed[k].update[BeaconProxyTable][1].Update

\* C14: in every instruction emitted by the worker the fields "score" and
\* "ts.score" hold the same value, the value of the local variables score and
\* tsScore of the iteration that emitted it
C14_ScoreParity ==
    /\ \A k \in 1..Len(analyzed) : UpdateOf(k).ts_score = UpdateOf(k).score
    /\ wpc = "callback" =>
          /\ locals.tsScore = locals.score
          /\ LastUpdate.score = locals.score
          /\ LastUpdate.ts_score = locals.tsScore

\* an instruction whose two score fields are both 0.701
C14_Witness ==
    /\ wpc = "callback"
    /\ LastUpdate.score = F64Quo(F64FromInt(701), F64FromInt(1000))
    /\ LastUpdate.ts_score = F64Quo(F64FromInt(701), F64FromInt(1000))

\* C15: for a connection count >= 0 and a window of positive width, the
\* connection count score is min(1, connectionCount / ((tsMax - tsMin) / 3600)):
\* it lies in [0, 1], it is 1 exactly when connectionCount * 3600 >= tsMax - tsMin,
\* below that it is the float64 quotient of the count by the width in hours,
\* and the update reports it
C15_ConnCountScore ==
    (wpc = "callback" /\ entry.data.ConnectionCount >= 0 /\ tsMax - tsMin > 0) =>
        /\ InUnitInterval(locals.tsConnCountScore)
        /\ locals.tsConnCountScore = F64One <=> AtLeastWindowHours
        /\ ~AtLeastWindowHours =>
              locals.tsConnCountScore =
                  F64Quo(F64FromInt(entry.data.ConnectionCount),
                         F64Quo(F64FromInt(tsMax - tsMin), F64FromInt(3600)))
        /\ LastUpdate.ts_conns_score = locals.tsConnCountScore

\* 3 connections in a window of 2 hours: the quotient 1.5 is capped to 1
C15_Witness ==
    /\ wpc = "callback" /\ entry.data.ConnectionCount = 3 /\ tsMax - tsMin = 7200
    /\ F64Gt(F64Quo(F64FromInt(entry.data.ConnectionCount), locals.tsConnDiv), F64One)
    /\ locals.tsConnCountScore = F64One
    /\ LastUpdate.ts_conns_score = F64One

\* the input that was passed to collect in the call named by the k-th
\* instruction's id
InputOf(k) == StreamInput(analyzed[k].id[1], analyzed[k].id[2])

\* C16: every instruction handed to analyzedCallback holds exactly one
\* change, for the beacon proxy table; its selector is the pair key of the
\* input it was computed from, Upsert is true, connection_count, proxy and
\* src_network_name are that input's values, cid is the analyzer's chunk, and
\* its histogram is that of the same input, whatever the interleaving of the
\* producers
C16_PassThrough ==
    \A k \in 1..Len(analyzed) :
        LET update == analyzed[k].update
            in == InputOf(k)
        IN  /\ DOMAIN update = {BeaconProxyTable}
            /\ Len(update[BeaconProxyTable]) = 1
            /\ update[BeaconProxyTable][1].Selector = in.key
            /\ update[BeaconProxyTable][1].Upsert = TRUE
            /\ UpdateOf(k).connection_count = in.ConnectionCount
            /\ UpdateOf(k).proxy = in.Proxy
            /\ UpdateOf(k).src_network_name = in.SrcNetworkName
            /\ UpdateOf(k).cid = chunk
            /\ UpdateOf(k).ts_intervals = createCountMap(DiffFull(in.TsList)).distinct
            /\ \A p \in Producers, i \in 1..MaxCollects :
                  StreamInput(p, i).key # in.key =>
                      /\ update[BeaconProxyTable][1].Selector # StreamInput(p, i).key
                      /\ UpdateOf(k).connection_count # StreamInput(p, i).ConnectionCount

\* both producers' inputs were analyzed, an input of the second before one of
\* the first, and the instructions name pairs of both networks
C16_Witness ==
    /\ Len(analyzed) >= 3
    /\ analyzed[1].id[1] = 2
    /\ \E k \in 2..Len(analyzed) : analyzed[k].id[1] = 1
    /\ \E k1, k2 \in 1..Len(analyzed) :
          /\ UpdateOf(k1).src_network_name = "lan" /\ UpdateOf(k1).proxy = "proxy-b"
          /\ UpdateOf(k2).src_network_name = "dmz" /\ UpdateOf(k2).proxy = "proxy-a"

\* C17: two instructions computed from the same input (in any two positions
\* of the stream) are equal, and every instruction is the one the worker
\* computes from its input, the window and the chunk alone, whatever was
\* analyzed before it
C17_Idempotence ==
    /\ \A k1, k2 \in 1..Len(analyzed) :
          InputOf(k1) = InputOf(k2) => analyzed[k1].update = analyzed[k2].update
    /\ \A k \in 1..Len(analyzed) :
          analyzed[k].update = Instruction(InputOf(k), Body(InputOf(k), tsMin, tsMax), chunk)

\* the same input was analyzed twice, with another pair's input between
C17_Witness ==
    \E k1, k2, k3 \in 1..Len(analyzed) :
        /\ k1 < k3 /\ k3 < k2
        /\ analyzed[k1].id # analyzed[k2].id
        /\ InputOf(k1) = InputOf(k2)
        /\ InputOf(k3) # InputOf(k1)
        /\ analyzed[k1].update = analyzed[k2].update

\* C18: the entry the worker holds, before, during and after its
\* analyzedCallback, has the timestamps (and every other field) that were
\* passed to collect, in the same order, although diffFull and devs were
\* sorted; and tsMin, tsMax and chunk hold the values of construction
C18_InputUnchanged ==
    /\ entry # NoEntry =>
          /\ entry.data.TsList = StreamInput(entry.id[1], entry.id[2]).TsList
          /\ entry.data = StreamInput(entry.id[1], entry.id[2])
    /\ tsMin = 0 /\ tsMax = 7200 /\ chunk = 1

\* the timestamps 0, 3, 3, 9, 10 with the deltas 3, 0, 6, 1: the worker
\* sorted the deltas and the deviations, and the list is as it was
C18_Witness ==
    /\ wpc = "callback"
    /\ entry.data.TsList = <<0, 3, 3, 9, 10>>
    /\ RawDeltas(entry.data.TsList) = <<3, 0, 6, 1>>
    /\ locals.diffFull = <<0, 1, 3, 6>>
    /\ locals.diff = <<1, 3, 6>>
    /\ locals.devs = <<0, 2, 3>>

\* C19: for a valid input, mid >= 1 and the dispersion madm is the value at
\* the 0.5 quantile index of the absolute deviations of diff about mid in
\* ascending order, with 0 <= madm < mid; so tsMadmScore is
\* 1 - madm/mid, above 0 and at most 1: the branch for mid < 1 and the raise
\* to 0 are not taken
C19_DispersionBelowMid ==
    (wpc = "callback" /\ ValidTs(entry.data.TsList)) =>
        LET m == Len(locals.diff)
            idx == QuantileIdx(2, m)
            mid == locals.tsMid
            madm == locals.tsMadm
            below == {i \in 1..m : Abs(locals.diff[i] - mid) < madm}
            upTo == {i \in 1..m : Abs(locals.diff[i] - mid) <= madm}
        IN  /\ mid >= 1
            /\ 0 <= madm /\ madm < mid
            /\ Cardinality(below) <= idx /\ Cardinality(upTo) >= idx + 1
            /\ LastUpdate.ts_dispersion = madm
            /\ locals.tsMadmScore = F64Sub(F64One, F64Quo(F64FromInt(madm), F64FromInt(mid)))
            /\ F64Gt(locals.tsMadmScore, F64FromInt(0))
            /\ ~F64Gt(locals.tsMadmScore, F64One)

\* the deltas 1, 2, 3, 5, 8: mid 3, deviations 0, 1, 2, 2, 5, madm 2 and the
\* score 1 - 2/3
C19_Witness ==
    /\ wpc = "callback" /\ ValidTs(entry.data.TsList)
    /\ locals.diff = <<1, 2, 3, 5, 8>>
    /\ locals.tsMid = 3 /\ locals.devs = <<0, 1, 2, 2, 5>> /\ locals.tsMadm = 2
    /\ locals.tsMadmScore = F64Sub(F64One, F64Quo(F64FromInt(2), F64FromInt(3)))

\* the positive values among the deltas of ts
PositiveDeltas(ts) == {RawDeltas(ts)[i] : i \in 1..Len(RawDeltas(ts))} \ {0}

\* the largest and the smallest element of a non-empty set of integers
MaxOf(S) == CHOOSE x \in S : \A y \in S : y <= x
MinOf(S) == CHOOSE x \in S : \A y \in S : x <= y

\* C20: for a valid input with duplicate timestamps, diff holds the positive
\* deltas only and the reported range is the largest positive delta minus the
\* smallest positive delta (>= 0, not measured from 0), while the reported
\* intervals begin with 0, counted once per zero delta; when no other
\* interval occurs more often, the mode is 0 with that count
C20_RangeAndHistogram ==
    (wpc = "callback" /\ ValidTs(entry.data.TsList)
       /\ Occurrences(RawDeltas(entry.data.TsList), 0) > 0) =>
        LET ts == entry.data.TsList
            zeros == Occurrences(RawDeltas(ts), 0)
        IN  /\ \A i \in 1..Len(locals.diff) : locals.diff[i] > 0
            /\ Len(locals.diff) = Len(RawDeltas(ts)) - zeros
            /\ LastUpdate.ts_range = MaxOf(PositiveDeltas(ts)) - MinOf(PositiveDeltas(ts))
            /\ LastUpdate.ts_range >= 0
            /\ LastUpdate.ts_intervals[1] = 0
            /\ LastUpdate.ts_interval_counts[1] = zeros
            /\ (\A v \in PositiveDeltas(ts) : Occurrences(RawDeltas(ts), v) <= zeros) =>
                  (LastUpdate.ts_mode = 0 /\ LastUpdate.ts_mode_count = zeros)

\* the timestamps 0, 0, 0, 1, 3, 6 with the deltas 0, 0, 1, 2, 3: diff is
\* 1, 2, 3, the range is 2 (not 3), and the mode is 0 with the count 2
C20_Witness ==
    /\ wpc = "callback"
    /\ entry.data.TsList = <<0, 0, 0, 1, 3, 6>>
    /\ locals.diffFull = <<0, 0, 1, 2, 3>>
    /\ locals.diff = <<1, 2, 3>>
    /\ LastUpdate.ts_range = 2
    /\ LastUpdate.ts_intervals = <<0, 1, 2, 3>>
    /\ LastUpdate.ts_interval_counts = <<2, 1, 1, 1>>
    /\ LastUpdate.ts_mode = 0 /\ LastUpdate.ts_mode_count = 2

====
